---- MODULE Spec2Model ----
(***************************************************************************)
(* Model of the investment-analysis logic of the Notsoup repository:       *)
(*   src/App.py   PropertyAnalyzer (calculate_investment_metrics,          *)
(*                analyze_neighborhood_trends) and the pages calling it    *)
(*   src/3App.py  display_investment_calculator and                        *)
(*                render_investment_calculator_tab                         *)
(*                                                                         *)
(* Numbers.  The Python code computes on floats.  A number is modelled as  *)
(* an exact rational <<n, d>> in lowest terms with d > 0, so rounding of   *)
(* the last bit is abstracted away.  The one place where double rounding   *)
(* changes control flow, 1 + monthly_rate for a monthly rate below 2^-53,  *)
(* is kept: see TinyRate and OnePlus.                                      *)
(***************************************************************************)
EXTENDS Integers, Sequences, FiniteSets, TLC

VARIABLES op, args, result

\* the usage store and the runs of the search page (src/App.py 595-655, 1253-1300)
VARIABLES usage_rows, runs, searches_passed, provider_requests, property_saves, store_failed

\* the session of one browser tab (src/App.py 164-273, 948-971, 1008-1013, 2258-2389)
VARIABLES session_state, screen, signin, signed_out

calc_vars == <<op, args, result>>

gate_vars == <<usage_rows, runs, searches_passed, provider_requests, property_saves, store_failed>>

auth_vars == <<session_state, screen, signin, signed_out>>

vars == <<calc_vars, gate_vars, auth_vars>>

----------------------------------------------------------------------------
(* Exact rational arithmetic                                               *)

Abs(x) == IF x < 0 THEN -x ELSE x

gcd[a \in Nat, b \in Nat] == IF b = 0 THEN a ELSE gcd[b, a % b]

GCD(a, b) == gcd[a, b]

\* n/d in lowest terms, sign carried by the numerator (d # 0)
Rat(n, d) ==
    LET g == GCD(Abs(n), Abs(d))
        s == IF d < 0 THEN -1 ELSE 1
    IN  <<(s * n) \div g, Abs(d) \div g>>

Num(x) == x[1]
Den(x) == x[2]

Zero == <<0, 1>>
One == <<1, 1>>
R(i) == <<i, 1>>

RNeg(x) == <<-Num(x), Den(x)>>

RAdd(x, y) ==
    LET g == GCD(Den(x), Den(y))
        l == (Den(x) \div g) * Den(y)
    IN  Rat(Num(x) * (l \div Den(x)) + Num(y) * (l \div Den(y)), l)

RSub(x, y) == RAdd(x, RNeg(y))

RMul(x, y) ==
    LET g1 == GCD(Abs(Num(x)), Den(y))
        g2 == GCD(Abs(Num(y)), Den(x))
    IN  Rat((Num(x) \div g1) * (Num(y) \div g2),
            (Den(x) \div g2) * (Den(y) \div g1))

\* y # Zero; a zero divisor is handled by the caller (ZeroDivisionError)
RDiv(x, y) == RMul(x, Rat(Den(y), Num(y)))

RLt(x, y) == Num(RSub(x, y)) < 0
RLe(x, y) == Num(RSub(x, y)) <= 0
RGt(x, y) == RLt(y, x)
RGe(x, y) == RLe(y, x)

RECURSIVE RPowNat(_, _)
RPowNat(x, k) ==
    IF k = 0 THEN One
    ELSE IF k % 2 = 0 THEN LET h == RPowNat(x, k \div 2) IN RMul(h, h)
    ELSE RMul(x, RPowNat(x, k - 1))

\* x ** k for an integer k (x # Zero when k < 0)
RPow(x, k) == IF k >= 0 THEN RPowNat(x, k) ELSE RDiv(One, RPowNat(x, -k))

----------------------------------------------------------------------------
(* Python values                                                           *)

None == <<"None">>
ZeroDivisionError == <<"ZeroDivisionError">>
ValueError == <<"ValueError">>

\* a positive double r with r / 100 / 12 < 2^-53, e.g. 1e-15
TinyRate == <<"tiny">>

\* Python truthiness of an optional number
Truthy(x) == x # None /\ x # Zero

\* Python's  a or b
PyOr(a, b) == IF Truthy(a) THEN a ELSE b

----------------------------------------------------------------------------
(* Mortgage payment: the same statements in calculate_investment_metrics,  *)
(* display_investment_calculator and render_investment_calculator_tab      *)

\* interest_rate / 100 / 12
MonthlyRate(interest_rate) ==
    IF interest_rate = TinyRate THEN TinyRate
    ELSE RDiv(RDiv(interest_rate, R(100)), R(12))

\* monthly_rate > 0
IsPositive(x) == x = TinyRate \/ Num(x) > 0

\* the double 1 + monthly_rate: a rate below 2^-53 is absorbed, 1 + r == 1.0
OnePlus(x) == IF x = TinyRate THEN One ELSE RAdd(One, x)

\* the if/else computing the monthly payment; a rational, or the exception
\* raised by its division
monthly_payment(loan_amount, interest_rate, loan_term) ==
    LET monthly_rate == MonthlyRate(interest_rate)
        num_payments == loan_term * 12
    IN  IF IsPositive(monthly_rate)
        THEN LET growth == RPow(OnePlus(monthly_rate), num_payments)
                 denom == RSub(growth, One)
             IN  IF denom = Zero THEN ZeroDivisionError
                 ELSE RDiv(RMul(loan_amount, RMul(monthly_rate, growth)), denom)
        ELSE IF num_payments = 0 THEN ZeroDivisionError
             ELSE RDiv(loan_amount, R(num_payments))

\* purchase_price * (down_payment_percent / 100)
DownPayment(purchase_price, down_payment_percent) ==
    RMul(purchase_price, RDiv(down_payment_percent, R(100)))

----------------------------------------------------------------------------
(* src/App.py  PropertyAnalyzer.calculate_investment_metrics               *)

PropertyTaxRate == Rat(12, 1000)
InsuranceRate == Rat(3, 1000)
MaintenanceShare == Rat(5, 100)
VacancyShare == Rat(8, 100)
ManagementShare == Rat(10, 100)

\* an argument after a call that only reads it (get, len, iteration, list
\* comprehension): the caller's object is as it was
ReadOnly(argument) == argument

\* property_data.get("lastSalePrice") or property_data.get("price", 0)
PurchasePrice(property_data) ==
    PyOr(property_data.lastSalePrice,
         IF property_data.price = None THEN Zero ELSE property_data.price)

cash_on_cash(annual_cash_flow, down_payment) ==
    IF RGt(down_payment, Zero)
    THEN RMul(RDiv(annual_cash_flow, down_payment), R(100))
    ELSE Zero

\* ((monthly_rental * 12) / purchase_price) * 100
metrics_cap_rate(monthly_rental, total_monthly_expenses, monthly_payment_, purchase_price) ==
    RMul(RDiv(RMul(monthly_rental, R(12)), purchase_price), R(100))

\* mutant: the cash flow is taken from the rent after vacancy, although the
\* vacancy allowance is among the expenses
metrics_cash_flow_vacancy_twice(monthly_rental, total_monthly_expenses) ==
    RSub(RMul(monthly_rental, RSub(One, VacancyShare)), total_monthly_expenses)

metrics_cash_flow(monthly_rental, total_monthly_expenses) ==
    RSub(monthly_rental, total_monthly_expenses)

calculate_investment_metrics(property_data, rental_estimate, down_payment_percent, interest_rate, loan_term_years) ==
    LET purchase_price == PurchasePrice(property_data) IN
    IF ~Truthy(purchase_price)
    THEN [kind |-> "error", error |-> "No purchase price available"]
    ELSE
    LET down_payment == DownPayment(purchase_price, down_payment_percent)
        loan_amount == RSub(purchase_price, down_payment)
        payment == monthly_payment(loan_amount, interest_rate, loan_term_years)
    IN
    IF payment = ZeroDivisionError
    THEN [kind |-> "raise", exc |-> ZeroDivisionError, at |-> "monthly_payment"]
    ELSE
    LET monthly_rental == rental_estimate
        property_tax_monthly == RDiv(RMul(purchase_price, PropertyTaxRate), R(12))
        insurance_monthly == RDiv(RMul(purchase_price, InsuranceRate), R(12))
        maintenance_monthly == RMul(monthly_rental, MaintenanceShare)
        vacancy_allowance == RMul(monthly_rental, VacancyShare)
        property_mgmt == RMul(monthly_rental, ManagementShare)
        total_monthly_expenses ==
            RAdd(RAdd(RAdd(RAdd(RAdd(payment, property_tax_monthly),
                 insurance_monthly), maintenance_monthly),
                 vacancy_allowance), property_mgmt)
        monthly_cash_flow == metrics_cash_flow(monthly_rental, total_monthly_expenses)
        annual_cash_flow == RMul(monthly_cash_flow, R(12))
    IN  [kind |-> "ok",
         purchase_price |-> purchase_price,
         down_payment |-> down_payment,
         loan_amount |-> loan_amount,
         monthly_payment |-> payment,
         monthly_rental |-> monthly_rental,
         monthly_cash_flow |-> monthly_cash_flow,
         annual_cash_flow |-> annual_cash_flow,
         cash_on_cash_return |-> cash_on_cash(annual_cash_flow, down_payment),
         cap_rate |-> metrics_cap_rate(monthly_rental, total_monthly_expenses,
                                       payment, purchase_price),
         one_percent_rule |-> RMul(RDiv(monthly_rental, purchase_price), R(100)),
         total_monthly_expenses |-> total_monthly_expenses,
         property_tax_monthly |-> property_tax_monthly,
         insurance_monthly |-> insurance_monthly,
         maintenance_monthly |-> maintenance_monthly,
         vacancy_allowance |-> vacancy_allowance,
         property_mgmt |-> property_mgmt]

----------------------------------------------------------------------------
(* src/3App.py  the two investment calculators                             *)

\* value= of the "Purchase Price ($)" and "Monthly Rent ($)" inputs
DefaultPurchasePrice == 200000
DefaultMonthlyRent == 2000

\* a widget the user left alone keeps its value= default
Untouched == <<"untouched">>
WidgetValue(entered, default) == IF entered = Untouched THEN default ELSE entered

\* mutant: the vacancy rate is added instead of subtracted
effective_rent_plus_vacancy(monthly_rent, vacancy_rate) ==
    RMul(monthly_rent, RAdd(One, RDiv(vacancy_rate, R(100))))

\* monthly_rent * (1 - vacancy_rate / 100)
effective_rent(monthly_rent, vacancy_rate) ==
    RMul(monthly_rent, RSub(One, RDiv(vacancy_rate, R(100))))

\* mutant: the percentage is taken off the vacancy-discounted rent
percent_of_effective_rent(monthly_rent, vacancy_rate, pct) ==
    RMul(effective_rent(monthly_rent, vacancy_rate), RDiv(pct, R(100)))

\* monthly_rent * (pct / 100): maintenance_cost and mgmt_cost
percent_of_rent(monthly_rent, vacancy_rate, pct) ==
    RMul(monthly_rent, RDiv(pct, R(100)))

\* mutant: a negative cash flow is reported as 0
calculator_cash_flow_clamped(effective_rent_, total_expenses) ==
    IF RLt(effective_rent_, total_expenses) THEN Zero
    ELSE RSub(effective_rent_, total_expenses)

\* effective_rent - total_monthly_expenses
calculator_cash_flow(effective_rent_, total_expenses) ==
    RSub(effective_rent_, total_expenses)

\* the statements after "if calculate_button:" / "if calculate:" up to the
\* metrics; fixed_costs is the sequence of the fixed monthly costs added to the
\* mortgage and pct_costs the sequence of percent-of-rent costs
calculator(purchase_price, down_payment_pct, interest_rate, loan_term, monthly_rent, vacancy_rate, fixed_costs, pct_costs) ==
    LET down_payment == DownPayment(purchase_price, down_payment_pct)
        loan_amount == RSub(purchase_price, down_payment)
        monthly_mortgage == monthly_payment(loan_amount, interest_rate, loan_term)
    IN
    IF monthly_mortgage = ZeroDivisionError
    THEN [kind |-> "raise", exc |-> ZeroDivisionError, at |-> "monthly_mortgage"]
    ELSE
    LET eff == effective_rent(monthly_rent, vacancy_rate)
        costs == [i \in 1..Len(pct_costs) |->
                     percent_of_rent(monthly_rent, vacancy_rate, pct_costs[i])]
        sum_fixed[i \in 0..Len(fixed_costs)] ==
            IF i = 0 THEN monthly_mortgage ELSE RAdd(sum_fixed[i - 1], fixed_costs[i])
        sum_all[i \in 0..Len(costs)] ==
            IF i = 0 THEN sum_fixed[Len(fixed_costs)] ELSE RAdd(sum_all[i - 1], costs[i])
        total_monthly_expenses == sum_all[Len(costs)]
        monthly_cash_flow == calculator_cash_flow(eff, total_monthly_expenses)
        annual_cash_flow == RMul(monthly_cash_flow, R(12))
        locals == [purchase_price |-> purchase_price,
                   down_payment |-> down_payment,
                   loan_amount |-> loan_amount,
                   monthly_mortgage |-> monthly_mortgage,
                   monthly_rent |-> monthly_rent,
                   effective_rent |-> eff,
                   pct_costs |-> costs,
                   total_monthly_expenses |-> total_monthly_expenses,
                   monthly_cash_flow |-> monthly_cash_flow,
                   annual_cash_flow |-> annual_cash_flow]
    IN
    \* cap_rate = (annual_cash_flow + (monthly_mortgage * 12)) / purchase_price * 100
    IF purchase_price = Zero
    THEN [kind |-> "raise", exc |-> ZeroDivisionError, at |-> "cap_rate",
          locals |-> locals]
    ELSE [kind |-> "ok",
          locals |-> locals,
          cap_rate |-> RMul(RDiv(RAdd(annual_cash_flow, RMul(monthly_mortgage, R(12))),
                                 purchase_price), R(100)),
          cash_on_cash_return |-> cash_on_cash(annual_cash_flow, down_payment)]

\* value= of the monthly rent input of display_investment_calculator:
\* rent_estimate.get('rent', 2000) if rent_estimate else 2000
\* (rent_estimate: None, or the provider's record; NoRentKey: a non-empty
\* record without 'rent')
NoRentKey == <<"no rent key">>
EmptyRecord == <<"{}">>
RentDefault(rent_estimate) ==
    IF rent_estimate \in {None, EmptyRecord, NoRentKey} THEN R(DefaultMonthlyRent)
    ELSE rent_estimate

\* property_data.get('lastSalePrice', 200000)
PriceDefault(last_sale_price) ==
    IF last_sale_price = None THEN R(DefaultPurchasePrice) ELSE last_sale_price

display_investment_calculator(last_sale_price, rent_estimate, form, calculate) ==
    IF ~calculate THEN [kind |-> "form"]
    ELSE calculator(WidgetValue(form.purchase_price, PriceDefault(last_sale_price)),
                    form.down_payment_pct, form.interest_rate, form.loan_term,
                    WidgetValue(form.monthly_rent, RentDefault(rent_estimate)),
                    form.vacancy_rate, <<form.monthly_expenses>>, <<>>)

render_investment_calculator_tab(saved_properties, last_sale_price, form, calculate) ==
    IF ~saved_properties THEN [kind |-> "no saved properties"]
    ELSE IF ~calculate THEN [kind |-> "form"]
    ELSE calculator(WidgetValue(form.purchase_price, PriceDefault(last_sale_price)),
                    form.down_payment_pct, form.interest_rate, form.loan_term,
                    WidgetValue(form.monthly_rent, R(DefaultMonthlyRent)),
                    form.vacancy_rate,
                    <<form.monthly_property_tax, form.monthly_insurance, form.monthly_hoa>>,
                    <<form.maintenance_pct, form.property_mgmt_pct>>)

----------------------------------------------------------------------------
(* src/App.py  the search page: rental estimate, then investment analysis  *)

\* display_rental_analysis returns rental_data.get("rent", 0)
display_rental_analysis(rental_data) ==
    IF rental_data = NoRentKey THEN Zero ELSE rental_data

\* display_investment_analysis up to its use of the metrics.  The figures it
\* shows are those of calculate_investment_metrics for the slider values.
display_investment_analysis(property_data, rental_estimate) ==
    IF RLe(rental_estimate, Zero)
    THEN [kind |-> "warning",
          message |-> "Rental estimate required for investment analysis"]
    ELSE IF ~Truthy(PurchasePrice(property_data))
    THEN [kind |-> "error", error |-> "No purchase price available"]
    ELSE [kind |-> "metrics", rental_estimate |-> rental_estimate,
          purchase_price |-> PurchasePrice(property_data)]

\* display_comprehensive_property_analysis, the rental and investment part
display_comprehensive_property_analysis(property_data, search_type, include_rental_estimates, rental_data) ==
    LET rental_estimate ==
            IF include_rental_estimates /\ rental_data \notin {None, EmptyRecord}
            THEN display_rental_analysis(rental_data)
            ELSE Zero
    IN  IF search_type = "Investment Analysis" \/ RGt(rental_estimate, Zero)
        THEN display_investment_analysis(property_data, rental_estimate)
        ELSE [kind |-> "not shown"]

----------------------------------------------------------------------------
(* src/App.py  PropertyAnalyzer.analyze_neighborhood_trends                *)

\* sum of a sequence of rationals
RSum(seq) ==
    LET acc[i \in 0..Len(seq)] == IF i = 0 THEN Zero ELSE RAdd(acc[i - 1], seq[i])
    IN  acc[Len(seq)]

\* np.mean of a non-empty sequence
Mean(seq) == RDiv(RSum(seq), R(Len(seq)))

\* the k-th smallest element of a non-empty sequence
KthSmallest(seq, k) ==
    CHOOSE v \in {seq[i] : i \in DOMAIN seq} :
        /\ Cardinality({i \in DOMAIN seq : RLt(seq[i], v)}) < k
        /\ Cardinality({i \in DOMAIN seq : RLe(seq[i], v)}) >= k

\* np.median
Median(seq) ==
    LET n == Len(seq) IN
    IF n % 2 = 1 THEN KthSmallest(seq, (n + 1) \div 2)
    ELSE RDiv(RAdd(KthSmallest(seq, n \div 2), KthSmallest(seq, n \div 2 + 1)), R(2))

\* mutant: the mean is not subtracted (the mean of the squares)
mean_of_squares(seq) == Mean([i \in DOMAIN seq |-> RMul(seq[i], seq[i])])

\* np.std squared (population variance): the square root is not rational, so
\* price_std is carried as its square
Variance(seq) ==
    LET m == Mean(seq)
        sq == [i \in DOMAIN seq |-> RMul(RSub(seq[i], m), RSub(seq[i], m))]
    IN  Mean(sq)

SeqMin(seq) == KthSmallest(seq, 1)
SeqMax(seq) == KthSmallest(seq, Len(seq))

\* prop.get("lastSalePrice") and prop.get("lastSaleDate")
HasPriceAndDate(prop) == Truthy(prop.lastSalePrice) /\ prop.lastSaleDate # None

\* prop.get("lastSalePrice") and prop.get("squareFootage"), then squareFootage > 0
HasPricePerSqft(prop) ==
    /\ Truthy(prop.lastSalePrice)
    /\ Truthy(prop.squareFootage)
    /\ RGt(prop.squareFootage, Zero)

NoType == "(absent)"

\* prop.get("propertyType", "Unknown")
TypeOf(prop) == IF prop.propertyType = NoType THEN "Unknown" ELSE prop.propertyType

\* pd.Series(property_types).value_counts().to_dict()
value_counts(types) ==
    [t \in {types[i] : i \in DOMAIN types} |->
        Cardinality({i \in DOMAIN types : types[i] = t})]

\* mutant: the check for an empty price list is missing
no_price_data_unchecked(prices) == FALSE

\* "if not prices": the early return of analyze_neighborhood_trends
no_price_data(prices) == prices = <<>>

analyze_neighborhood_trends(comparable_properties) ==
    IF comparable_properties = <<>>
    THEN [kind |-> "error", error |-> "No comparable properties available"]
    ELSE
    LET included == SelectSeq(comparable_properties, HasPriceAndDate)
        prices == [i \in DOMAIN included |-> included[i].lastSalePrice]
        property_types == [i \in DOMAIN included |-> TypeOf(included[i])]
    IN
    IF no_price_data(prices)
    THEN [kind |-> "error", error |-> "No price data available"]
    ELSE
    \* min(prices) of an empty list raises ValueError
    IF prices = <<>>
    THEN [kind |-> "raise", exc |-> ValueError, at |-> "min_price"]
    ELSE
    LET avg_price == Mean(prices)
        price_var == Variance(prices)
        min_price == SeqMin(prices)
        max_price == SeqMax(prices)
        with_sqft == SelectSeq(comparable_properties, HasPricePerSqft)
        price_per_sqft == [i \in DOMAIN with_sqft |->
                              RDiv(with_sqft[i].lastSalePrice, with_sqft[i].squareFootage)]
    IN  [kind |-> "ok",
         total_properties |-> Len(comparable_properties),
         avg_price |-> avg_price,
         median_price |-> Median(prices),
         price_std_sq |-> price_var,
         min_price |-> min_price,
         max_price |-> max_price,
         avg_price_per_sqft |->
             IF price_per_sqft # <<>> THEN Mean(price_per_sqft) ELSE Zero,
         property_type_distribution |-> value_counts(property_types),
         price_range |-> RSub(max_price, min_price),
         \* ((price_std / avg_price) * 100) squared
         coefficient_of_variation_sq |->
             IF RGt(avg_price, Zero)
             THEN RMul(RDiv(price_var, RMul(avg_price, avg_price)), R(10000))
             ELSE Zero]

----------------------------------------------------------------------------
(* src/App.py  PropertyAnalyzer.calculate_appreciation_forecast            *)

\* a date string that datetime.fromisoformat rejects
NotADate == <<"not a date">>

\* dates are written <<year, month, day>> (the time of day is midnight UTC)
IsLeap(y) == (y % 4 = 0 /\ y % 100 # 0) \/ y % 400 = 0

DaysBeforeMonth(y, m) ==
    LET cum == <<0, 31, 59, 90, 120, 151, 181, 212, 243, 273, 304, 334>>
    IN  cum[m] + (IF m > 2 /\ IsLeap(y) THEN 1 ELSE 0)

\* the day number of a parsed date (date.toordinal)
ToOrdinal(date) ==
    LET y == date[1] - 1
    IN  y * 365 + (y \div 4) - (y \div 100) + (y \div 400)
          + DaysBeforeMonth(date[1], date[2]) + date[3]

\* datetime.fromisoformat succeeds
Parses(date) == Len(date) = 3

\* data.get("price") and data.get("date"), and the date parses
IsValidPoint(data) ==
    /\ Truthy(data.price)
    /\ data.date # None
    /\ Parses(data.date)

\* list.sort(key=lambda x: x[0]): a stable sort by date
SortByDate(price_data) ==
    LET n == Len(price_data)
        before(j, i) ==
            \/ price_data[j][1] < price_data[i][1]
            \/ price_data[j][1] = price_data[i][1] /\ j < i
        rank(i) == 1 + Cardinality({j \in 1..n : before(j, i)})
    IN  [k \in 1..n |-> price_data[CHOOSE i \in 1..n : rank(i) = k]]

\* the roots the float power can return exactly for the modelled inputs
RootCandidates == {Rat(a, b) : a \in 1..4, b \in 1..4}

\* base ** (1 / k): the k-th root.  The modelled prices and dates are chosen so
\* that the root is one of RootCandidates, which the float power returns exactly
PyPow(base, exponent) ==
    CHOOSE x \in RootCandidates : RPowNat(x, Den(exponent)) = RPowNat(base, Num(exponent))

DaysPerYear == Rat(1461, 4)

\* mutant: the second point is taken for the last one
second_point(price_data) == price_data[2]

\* price_data[-1]
last_point(price_data) == price_data[Len(price_data)]

\* mutant: the forecast starts at year 0
forecast_years_from_zero(years_ahead) == [k \in 1..years_ahead |-> k - 1]

\* range(1, years_ahead + 1)
forecast_years(years_ahead) == [k \in 1..years_ahead |-> k]

\* mutant: no check of the elapsed time
date_range_unchecked(years_elapsed) == FALSE

\* "if years_elapsed <= 0"
invalid_date_range(years_elapsed) == RLe(years_elapsed, Zero)

\* mutant: the invalid points are removed from the argument itself
historical_data_filtered_in_place(historical_data) ==
    SelectSeq(historical_data, IsValidPoint)

\* the caller's list after the call: the valid points are appended to the new
\* list price_data, and it is price_data that is sorted in place
historical_data_after_call(historical_data) == historical_data

calculate_appreciation_forecast(historical_data, years_ahead) ==
    IF Len(historical_data) < 2
    THEN [kind |-> "error", error |-> "Insufficient historical data"]
    ELSE
    LET valid == SelectSeq(historical_data, IsValidPoint)
        price_data == [i \in DOMAIN valid |-> <<ToOrdinal(valid[i].date), valid[i].price>>]
    IN
    IF Len(price_data) < 2
    THEN [kind |-> "error", error |-> "Insufficient valid price data"]
    ELSE
    LET sorted == SortByDate(price_data)
        start == sorted[1]
        end == last_point(sorted)
        years_elapsed == RDiv(R(end[1] - start[1]), DaysPerYear)
    IN
    IF invalid_date_range(years_elapsed)
    THEN [kind |-> "error", error |-> "Invalid date range"]
    ELSE
    \* 1 / years_elapsed
    IF years_elapsed = Zero
    THEN [kind |-> "raise", exc |-> ZeroDivisionError, at |-> "annual_appreciation"]
    ELSE
    LET growth == PyPow(RDiv(end[2], start[2]), RDiv(One, years_elapsed))
        annual_appreciation == RMul(RSub(growth, One), R(100))
        current_value == end[2]
        years == forecast_years(years_ahead)
        forecasts ==
            [k \in DOMAIN years |->
                LET future_value ==
                        RMul(current_value,
                             RPow(RAdd(One, RDiv(annual_appreciation, R(100))), years[k]))
                IN  [year |-> years[k],
                     projected_value |-> future_value,
                     projected_gain |-> RSub(future_value, current_value)]]
    IN  [kind |-> "ok",
         annual_appreciation_rate |-> annual_appreciation,
         current_value |-> current_value,
         forecasts |-> forecasts,
         total_projected_gain |->
             IF forecasts # <<>> THEN forecasts[Len(forecasts)].projected_gain ELSE Zero]

----------------------------------------------------------------------------
(* src/App.py  calculate_property_score, analyze_investment_risks,         *)
(*             display_advanced_analytics                                  *)

\* property_data.get("yearBuilt") of a record without the field: None, which
\* every test of the year ("if year_built", "... and int(...)") treats as 0
NoYearBuilt == 0

\* property_data.get(key, 0)
GetOrZero(value) == IF value = None THEN Zero ELSE value

\* if p.get("lastSalePrice")
HasPrice(prop) == Truthy(prop.lastSalePrice)

\* [p.get("lastSalePrice", 0) for p in comparable_properties if p.get("lastSalePrice")]
PricedOnly(comparable_properties) ==
    LET priced == SelectSeq(comparable_properties, HasPrice)
    IN  [i \in DOMAIN priced |-> priced[i].lastSalePrice]

\* mutant: 10 or more comparables score 90
location_liquidity_score_90(comparable_properties) ==
    IF Len(comparable_properties) >= 10 THEN 90
    ELSE IF Len(comparable_properties) >= 5 THEN 7
    ELSE 5

location_liquidity_score(comparable_properties) ==
    IF Len(comparable_properties) >= 10 THEN 9
    ELSE IF Len(comparable_properties) >= 5 THEN 7
    ELSE 5

\* mutant: a property of 50 years or more scores 3
property_age_score_below_scale(year_built, now_year) ==
    IF year_built # NoYearBuilt
    THEN LET property_age == now_year - year_built IN
         IF property_age < 10 THEN 9
         ELSE IF property_age < 20 THEN 8
         ELSE IF property_age < 30 THEN 7
         ELSE IF property_age < 50 THEN 6
         ELSE 3
    ELSE 5

\* now_year: datetime.now().year
property_age_score(year_built, now_year) ==
    IF year_built # NoYearBuilt
    THEN LET property_age == now_year - year_built IN
         IF property_age < 10 THEN 9
         ELSE IF property_age < 20 THEN 8
         ELSE IF property_age < 30 THEN 7
         ELSE IF property_age < 50 THEN 6
         ELSE 4
    ELSE 5

property_size_score(property_data) ==
    LET sqft == GetOrZero(property_data.squareFootage) IN
    IF RGe(sqft, R(2000)) THEN 8
    ELSE IF RGe(sqft, R(1500)) THEN 7
    ELSE IF RGe(sqft, R(1000)) THEN 6
    ELSE 5

price_competitiveness_score(property_data, comparable_properties) ==
    IF comparable_properties # <<>>
    THEN LET target_price == GetOrZero(property_data.lastSalePrice)
             comp_prices == PricedOnly(comparable_properties)
         IN  IF comp_prices # <<>> /\ RGt(target_price, Zero)
             THEN LET price_ratio == RDiv(target_price, Mean(comp_prices)) IN
                  IF RLt(price_ratio, Rat(9, 10)) THEN 9
                  ELSE IF RLt(price_ratio, One) THEN 8
                  ELSE IF RLt(price_ratio, Rat(11, 10)) THEN 7
                  ELSE 5
             ELSE 6
    ELSE 6

property_condition_score(year_built) ==
    IF year_built # NoYearBuilt /\ year_built > 2000 THEN 8 ELSE 6

calculate_property_score(property_data, comparable_properties, now_year) ==
    ("Location Liquidity" :> location_liquidity_score(comparable_properties))
    @@ ("Property Age" :> property_age_score(property_data.yearBuilt, now_year))
    @@ ("Property Size" :> property_size_score(property_data))
    @@ ("Price Competitiveness" :>
            price_competitiveness_score(property_data, comparable_properties))
    @@ ("Property Condition" :> property_condition_score(property_data.yearBuilt))

\* the findings and strategies of analyze_investment_risks
BuiltBefore1980 == "Property built before 1980 - potential lead paint/asbestos issues"
OlderProperty == "Older property may require more maintenance"
LimitedComparables == "Limited comparable sales - low market liquidity"
ModerateActivity == "Moderate market activity"
ActiveMarket == "Active market with good liquidity"
HighVolatility == "High price volatility in neighborhood"
ModerateVolatility == "Moderate price volatility"
StablePricing == "Stable pricing in neighborhood"
HoaFees == "HOA fees and restrictions may apply"

\* mutant: the general strategies without the last one
general_strategies_short ==
    <<"Maintain adequate insurance coverage",
      "Build cash reserves for unexpected expenses",
      "Consider professional property management">>

GeneralStrategies ==
    <<"Maintain adequate insurance coverage",
      "Build cash reserves for unexpected expenses",
      "Consider professional property management",
      "Regular property maintenance and inspections">>

\* one rule's contribution to the four lists
Finding(bucket, text, strategy) == [bucket |-> bucket, text |-> text, strategy |-> strategy]
NoStrategy == ""

\* mutant: the high-risk limit is 1979
age_rule_before_1979(year_built) ==
    IF year_built # NoYearBuilt /\ year_built < 1979
    THEN <<Finding("high_risks", BuiltBefore1980, "Conduct thorough property inspection")>>
    ELSE IF year_built # NoYearBuilt /\ year_built < 2000
    THEN <<Finding("medium_risks", OlderProperty, "Budget extra for maintenance and repairs")>>
    ELSE <<>>

age_rule(year_built) ==
    IF year_built # NoYearBuilt /\ year_built < 1980
    THEN <<Finding("high_risks", BuiltBefore1980, "Conduct thorough property inspection")>>
    ELSE IF year_built # NoYearBuilt /\ year_built < 2000
    THEN <<Finding("medium_risks", OlderProperty, "Budget extra for maintenance and repairs")>>
    ELSE <<>>

\* mutant: 5 comparables still count as limited
liquidity_rule_from_six(comparable_properties) ==
    IF Len(comparable_properties) < 6
    THEN <<Finding("high_risks", LimitedComparables, "Consider longer holding period")>>
    ELSE IF Len(comparable_properties) < 10
    THEN <<Finding("medium_risks", ModerateActivity, NoStrategy)>>
    ELSE <<Finding("low_risks", ActiveMarket, NoStrategy)>>

liquidity_rule(comparable_properties) ==
    IF Len(comparable_properties) < 5
    THEN <<Finding("high_risks", LimitedComparables, "Consider longer holding period")>>
    ELSE IF Len(comparable_properties) < 10
    THEN <<Finding("medium_risks", ModerateActivity, NoStrategy)>>
    ELSE <<Finding("low_risks", ActiveMarket, NoStrategy)>>

\* cv = (price_std / price_mean) * 100 if price_mean > 0 else 0, squared (the
\* standard deviation is carried as its square)
cv_squared(prices) ==
    LET price_mean == Mean(prices) IN
    IF RGt(price_mean, Zero)
    THEN RMul(RDiv(Variance(prices), RMul(price_mean, price_mean)), R(10000))
    ELSE Zero

\* "cv > 30", "cv > 20": decided on the squares, cv and the limits being >= 0
price_rule(comparable_properties) ==
    IF comparable_properties # <<>> /\ PricedOnly(comparable_properties) # <<>>
    THEN LET cv_sq == cv_squared(PricedOnly(comparable_properties)) IN
         IF RGt(cv_sq, R(30 * 30))
         THEN <<Finding("high_risks", HighVolatility,
                        "Consider conservative valuation approach")>>
         ELSE IF RGt(cv_sq, R(20 * 20))
         THEN <<Finding("medium_risks", ModerateVolatility, NoStrategy)>>
         ELSE <<Finding("low_risks", StablePricing, NoStrategy)>>
    ELSE <<>>

\* "condo" in property_type or "townhouse" in property_type, on the lowered
\* property type (absent: ""), for the property types of the provider
CondoOrTownhouse(property_type) == property_type \in {"Condo", "Townhouse"}

type_rule(property_type) ==
    IF CondoOrTownhouse(property_type)
    THEN <<Finding("medium_risks", HoaFees, "Review HOA documents and fee history")>>
    ELSE <<>>

analyze_investment_risks(property_data, comparable_properties) ==
    LET fired == age_rule(property_data.yearBuilt)
                     \o liquidity_rule(comparable_properties)
                     \o price_rule(comparable_properties)
                     \o type_rule(property_data.propertyType)
        bucket(name) ==
            LET in_bucket == SelectSeq(fired, LAMBDA f : f.bucket = name)
            IN  [i \in DOMAIN in_bucket |-> in_bucket[i].text]
        with_strategy == SelectSeq(fired, LAMBDA f : f.strategy # NoStrategy)
    IN  [high_risks |-> bucket("high_risks"),
         medium_risks |-> bucket("medium_risks"),
         low_risks |-> bucket("low_risks"),
         mitigation_strategies |->
             [i \in DOMAIN with_strategy |-> with_strategy[i].strategy]
                 \o GeneralStrategies]

\* sum(score_components.values())
SumOfScores(score_components) ==
    LET names == DOMAIN score_components
        sum[S \in SUBSET names] ==
            IF S = {} THEN 0
            ELSE LET name == CHOOSE n \in S : TRUE
                 IN  score_components[name] + sum[S \ {name}]
    IN  sum[names]

score_grade(score_percentage) ==
    IF RGe(score_percentage, R(80)) THEN "A"
    ELSE IF RGe(score_percentage, R(70)) THEN "B"
    ELSE IF RGe(score_percentage, R(60)) THEN "C"
    ELSE "D"

recommendation(score_percentage) ==
    IF RGe(score_percentage, R(80)) THEN "Strong Buy"
    ELSE IF RGe(score_percentage, R(70)) THEN "Buy"
    ELSE IF RGe(score_percentage, R(60)) THEN "Hold/Consider"
    ELSE "Avoid"

\* the competitive analysis: the property's price per square foot against the
\* comparables' mean
value_assessment(property_data, comparable_properties) ==
    LET target_price == GetOrZero(property_data.lastSalePrice)
        target_sqft == GetOrZero(property_data.squareFootage)
        with_sqft == SelectSeq(comparable_properties, HasPricePerSqft)
        comp_prices_per_sqft ==
            [i \in DOMAIN with_sqft |->
                RDiv(with_sqft[i].lastSalePrice, with_sqft[i].squareFootage)]
    IN
    IF /\ comparable_properties # <<>>
       /\ RGt(target_price, Zero) /\ RGt(target_sqft, Zero)
       /\ comp_prices_per_sqft # <<>>
    THEN LET avg_comp_price_per_sqft == Mean(comp_prices_per_sqft)
             price_difference == RSub(RDiv(target_price, target_sqft), avg_comp_price_per_sqft)
             price_difference_percent ==
                 RMul(RDiv(price_difference, avg_comp_price_per_sqft), R(100))
         IN  IF RLt(price_difference_percent, R(-10)) THEN "Undervalued"
             ELSE IF RLt(price_difference_percent, R(5)) THEN "Fair Value"
             ELSE "Overvalued"
    ELSE "(not shown)"

display_advanced_analytics(property_data, comparable_properties, now_year) ==
    LET score_components == calculate_property_score(property_data, comparable_properties, now_year)
        total_score == SumOfScores(score_components)
        max_score == Cardinality(DOMAIN score_components) * 10
        score_percentage == RMul(Rat(total_score, max_score), R(100))
    IN  [score_components |-> score_components,
         total_score |-> total_score,
         max_score |-> max_score,
         score_percentage |-> score_percentage,
         score_grade |-> score_grade(score_percentage),
         recommendation |-> recommendation(score_percentage),
         risks |-> analyze_investment_risks(property_data, comparable_properties),
         value_assessment |-> value_assessment(property_data, comparable_properties)]

----------------------------------------------------------------------------
(* Inputs                                                                  *)

MaxRentUnits == 3
MaxComps == 3

\* monthly rents, in steps of 100
MonthlyRents == {R(100 * k) : k \in 0..MaxRentUnits}

\* sale prices a property record can carry (None: field absent)
SalePrices == {None, Zero, R(-4000), R(4000), R(8000)}
ListPrices == {None, R(4000)}

\* arguments of the pure function: any float, any int
AnyDownPaymentPercents == {R(-50), R(0), R(20), R(100), R(150)}
AnyInterestRates == {R(0), TinyRate, R(1200)}
AnyLoanTerms == {-1, 0, 1}

\* what the provider returns for a rent estimate
RentEstimates == {None, EmptyRecord, NoRentKey} \cup MonthlyRents

\* values of the calculators' widgets: number inputs have min_value=0, the
\* sliders and the select box their ranges.  With a rate above 0 and a term of
\* 15 years or more (1 + r)^n exceeds the integers of the checker, so the
\* calculators are run at rate 0; the branch for a rate above 0 is the same
\* statement as in calculate_investment_metrics and is run there.
WidgetPrices == {Untouched, Zero, R(8000)}
WidgetRents == {Untouched} \cup MonthlyRents
DownPaymentSlider == {R(0), R(20), R(100)}
InterestRateSlider == {R(0)}
LoanTermOptions == {15, 30}
VacancySlider == {R(0), R(5), R(20)}
MonthlyAmounts == {R(0), R(150)}
MaintenanceSlider == {R(0), R(8)}
ManagementSlider == {R(0), R(10)}

SearchTypes == {"Basic Property Search", "Rental Analysis", "Investment Analysis"}

SaleDate == <<"2021-06-01T00:00:00Z">>

Comp(price, date, sqft, type) ==
    [lastSalePrice |-> price, lastSaleDate |-> date,
     squareFootage |-> sqft, propertyType |-> type]

\* comparable records of the provider
Comparables ==
    {Comp(R(100), SaleDate, R(10), "Single Family"),
     Comp(R(300), SaleDate, R(10), "Condo"),
     Comp(R(200), SaleDate, None, NoType),
     Comp(R(400), SaleDate, R(20), "Single Family"),
     Comp(R(100), SaleDate, Zero, "Condo"),
     Comp(R(300), None, R(10), "Single Family"),
     Comp(None, SaleDate, R(10), "Condo"),
     Comp(Zero, SaleDate, R(10), "Single Family")}

ComparableSets == UNION {[1..n -> Comparables] : n \in 0..MaxComps}

MaxPoints == 3
MaxHorizon == 3

\* sale dates four years apart (1461 days each)
HistoryDates == {<<2000, 1, 1>>, <<2004, 1, 1>>, <<2008, 1, 1>>}

Point(price, date) == [price |-> price, date |-> date]

\* historical price points of the provider: priced and dated ones, and ones
\* without a price, without a date or with a date that does not parse
HistoricalPoints ==
    {Point(price, date) : price \in {R(100), R(25600)}, date \in HistoryDates}
        \cup {Point(None, <<2000, 1, 1>>), Point(Zero, <<2004, 1, 1>>),
              Point(R(100), None), Point(R(25600), NotADate)}

HistoricalData == UNION {[1..n -> HistoricalPoints] : n \in 0..MaxPoints}

Horizons == -1..MaxHorizon

\* the property of the page: year built, square footage, sale price and type
\* (None, NoType: field absent)
YearsBuilt == {NoYearBuilt, 1970, 1979, 1980, 1999, 2000, 2001, 2010, 2020}
SquareFootages == {None, R(1000), R(1500), R(2000)}
TargetPrices == {None, R(300), R(400)}
PropertyTypes == {NoType, "Condo"}

\* datetime.now().year
NowYears == {2026, 2030}

MaxPageComps == 2

\* comparables of the page: a list of up to MaxPageComps records, followed by
\* none, 4 or 9 more sales of one kind (5 and 10 comparables are the limits of
\* the liquidity rules)
PageComparables ==
    {Comp(R(200), SaleDate, R(10), "Single Family"),
     Comp(R(300), SaleDate, None, "Condo"),
     Comp(R(500), None, R(20), NoType),
     Comp(None, SaleDate, R(10), "Condo")}

FurtherSales == {0, 4, 9}

PageComparableSets ==
    {short \o [i \in 1..k |-> Comp(R(300), SaleDate, R(10), "Single Family")] :
        short \in UNION {[1..n -> PageComparables] : n \in 0..MaxPageComps},
        k \in FurtherSales}

----------------------------------------------------------------------------
(* Start of the usage store and of the session                             *)

\* the two sessions of one user that use the search page in the same month
SessionIds == {"s1", "s2"}

\* a run of the search page that has not been started: no local is set
\* (recorded is the usage the store held when get_user_usage was called)
NoRun == [pc |-> "idle", connected |-> FALSE, current_usage |-> 0, recorded |-> 0,
          usage_read |-> "not read", selected |-> <<>>, incremented |-> FALSE,
          requested |-> FALSE, saved |-> FALSE, outcome |-> "none", count |-> 0]

\* usage_count of the first row the store returns for the user and month,
\* the value get_user_usage and increment_usage read: result.data[0]
stored_usage(rows) == IF rows = <<>> THEN 0 ELSE rows[1]

\* an empty user_usage table, no search run, nothing requested or saved
GateStart ==
    /\ usage_rows = <<>>
    /\ runs = [s \in SessionIds |-> NoRun]
    /\ searches_passed = 0
    /\ provider_requests = 0
    /\ property_saves = 0
    /\ store_failed = FALSE

\* no check_subscription call has been made in the current run
NoSignIn == [called |-> FALSE]

\* st.session_state of a new browser session is empty; the first run shows
\* the authentication screen
AuthStart ==
    /\ session_state = <<>>
    /\ screen = "auth"
    /\ signin = NoSignIn
    /\ signed_out = "none"

----------------------------------------------------------------------------
(* Operations: one script run per action, then the next run               *)

CalcStart ==
    /\ op = "start"
    /\ args = <<>>
    /\ result = <<>>

Init ==
    /\ CalcStart
    /\ GateStart
    /\ AuthStart

Idle == op = "start"

Call_calculate_investment_metrics ==
    /\ Idle
    /\ UNCHANGED <<gate_vars, auth_vars>>
    /\ \E lsp \in SalePrices, lp \in ListPrices, rent \in MonthlyRents \ {Zero},
          dp \in AnyDownPaymentPercents, rate \in AnyInterestRates,
          term \in AnyLoanTerms :
        LET property_data == [lastSalePrice |-> lsp, price |-> lp] IN
        /\ op' = "calculate_investment_metrics"
        /\ args' = [property_data |-> property_data, rental_estimate |-> rent,
                    down_payment_percent |-> dp, interest_rate |-> rate,
                    loan_term_years |-> term,
                    after |-> [property_data |-> ReadOnly(property_data)]]
        /\ result' = calculate_investment_metrics(property_data, rent, dp, rate, term)

Call_display_comprehensive_property_analysis ==
    /\ Idle
    /\ UNCHANGED <<gate_vars, auth_vars>>
    /\ \E lsp \in SalePrices, lp \in ListPrices, st \in SearchTypes,
          inc \in BOOLEAN, rental_data \in RentEstimates :
        LET property_data == [lastSalePrice |-> lsp, price |-> lp] IN
        /\ op' = "display_comprehensive_property_analysis"
        /\ args' = [property_data |-> property_data, search_type |-> st,
                    include_rental_estimates |-> inc, rental_data |-> rental_data]
        /\ result' = display_comprehensive_property_analysis(
                         property_data, st, inc, rental_data)

Call_display_investment_calculator ==
    /\ Idle
    /\ UNCHANGED <<gate_vars, auth_vars>>
    /\ \E lsp \in {None, R(4000)}, rent_estimate \in RentEstimates,
          price \in WidgetPrices, dp \in DownPaymentSlider,
          rate \in InterestRateSlider, term \in LoanTermOptions,
          rent \in WidgetRents, vacancy \in VacancySlider,
          expenses \in MonthlyAmounts, calculate \in BOOLEAN :
        LET form == [purchase_price |-> price, down_payment_pct |-> dp,
                     interest_rate |-> rate, loan_term |-> term,
                     monthly_rent |-> rent, vacancy_rate |-> vacancy,
                     monthly_expenses |-> expenses]
        IN
        /\ op' = "display_investment_calculator"
        /\ args' = [last_sale_price |-> lsp, rent_estimate |-> rent_estimate,
                    form |-> form, calculate |-> calculate]
        /\ result' = display_investment_calculator(lsp, rent_estimate, form, calculate)

Call_render_investment_calculator_tab ==
    /\ Idle
    /\ UNCHANGED <<gate_vars, auth_vars>>
    /\ \E saved \in BOOLEAN, lsp \in {None, R(4000)},
          price \in WidgetPrices, dp \in DownPaymentSlider,
          rate \in InterestRateSlider, term \in LoanTermOptions,
          rent \in WidgetRents, vacancy \in VacancySlider,
          tax \in MonthlyAmounts, hoa \in MonthlyAmounts,
          maint \in MaintenanceSlider, mgmt \in ManagementSlider,
          calculate \in BOOLEAN :
        LET form == [purchase_price |-> price, down_payment_pct |-> dp,
                     interest_rate |-> rate, loan_term |-> term,
                     monthly_rent |-> rent, vacancy_rate |-> vacancy,
                     monthly_property_tax |-> tax, monthly_insurance |-> R(150),
                     monthly_hoa |-> hoa, maintenance_pct |-> maint,
                     property_mgmt_pct |-> mgmt]
        IN
        /\ op' = "render_investment_calculator_tab"
        /\ args' = [saved_properties |-> saved, last_sale_price |-> lsp,
                    form |-> form, calculate |-> calculate]
        /\ result' = render_investment_calculator_tab(saved, lsp, form, calculate)

Call_analyze_neighborhood_trends ==
    /\ Idle
    /\ UNCHANGED <<gate_vars, auth_vars>>
    /\ \E comps \in ComparableSets :
        /\ op' = "analyze_neighborhood_trends"
        /\ args' = [comparable_properties |-> comps,
                    after |-> [comparable_properties |-> ReadOnly(comps)]]
        /\ result' = analyze_neighborhood_trends(comps)

Call_calculate_appreciation_forecast ==
    /\ Idle
    /\ UNCHANGED <<gate_vars, auth_vars>>
    /\ \E historical_data \in HistoricalData, years_ahead \in Horizons :
        /\ op' = "calculate_appreciation_forecast"
        /\ args' = [historical_data |-> historical_data, years_ahead |-> years_ahead,
                    after |-> [historical_data |->
                                   historical_data_after_call(historical_data)]]
        /\ result' = calculate_appreciation_forecast(historical_data, years_ahead)

Call_display_advanced_analytics ==
    /\ Idle
    /\ UNCHANGED <<gate_vars, auth_vars>>
    /\ \E year_built \in YearsBuilt, sqft \in SquareFootages, price \in TargetPrices,
          type \in PropertyTypes, comps \in PageComparableSets, now_year \in NowYears :
        LET property_data == [yearBuilt |-> year_built, squareFootage |-> sqft,
                              lastSalePrice |-> price, propertyType |-> type]
        IN
        /\ op' = "display_advanced_analytics"
        /\ args' = [property_data |-> property_data, comparable_properties |-> comps,
                    now_year |-> now_year,
                    after |-> [property_data |-> ReadOnly(property_data),
                               comparable_properties |-> ReadOnly(comps)]]
        /\ result' = display_advanced_analytics(property_data, comps, now_year)

\* the next run of the script starts from nothing: no result is kept
Rerun ==
    /\ ~Idle
    /\ UNCHANGED <<gate_vars, auth_vars>>
    /\ op' = "start"
    /\ args' = <<>>
    /\ result' = <<>>

Next ==
    \/ Call_calculate_investment_metrics
    \/ Call_display_comprehensive_property_analysis
    \/ Call_display_investment_calculator
    \/ Call_render_investment_calculator_tab
    \/ Call_analyze_neighborhood_trends
    \/ Call_calculate_appreciation_forecast
    \/ Call_display_advanced_analytics
    \/ Rerun

Spec == Init /\ [][Next]_vars

----------------------------------------------------------------------------
(* Usage gate of the search page                                           *)
(* src/App.py render_property_search_interface 1253-1300,                  *)
(* SupabaseManager.get_user_usage 595-622, increment_usage 624-655.        *)
(* Every request to the store is a step of its own, so the requests of two *)
(* sessions interleave; each request either is answered or raises.         *)

\* st.session_state.get("max_usage", 25): the monthly limit of the user
max_usage == 2

\* searches one session starts
MaxSearches == 2

\* lines 1258-1260: the limit ends the run, otherwise increment_usage is called
usage_gate(run) ==
    IF run.current_usage >= max_usage
    THEN [run EXCEPT !.pc = "idle", !.outcome = "limit reached"]
    ELSE [run EXCEPT !.pc = "increment_select"]

\* lines 1263-1265: increment_usage returned False
increment_failed(run) == [run EXCEPT !.pc = "idle", !.outcome = "increment failed"]

\* line 1253: the search button is pressed with an address.  A manager that
\* is not connected answers get_user_usage with 0 and increment_usage with
\* False without a request to the store (lines 597-599, 626-627)
PressSearch(s) ==
    /\ runs[s].pc = "idle"
    /\ runs[s].count < MaxSearches
    /\ \E connected \in BOOLEAN :
        LET run == [NoRun EXCEPT !.count = runs[s].count + 1,
                                 !.connected = connected,
                                 !.recorded = stored_usage(usage_rows)]
        IN
        /\ runs' = [runs EXCEPT ![s] =
                       IF connected
                       THEN [run EXCEPT !.pc = "get_user_usage"]
                       ELSE increment_failed([run EXCEPT !.usage_read = "unavailable"])]
        /\ store_failed' = (store_failed \/ ~connected)
    /\ UNCHANGED <<usage_rows, searches_passed, provider_requests, property_saves>>
    /\ UNCHANGED <<calc_vars, auth_vars>>

\* get_user_usage, the select (lines 604-607, 619-621): a row gives its
\* usage_count, an exception gives 0, no row leads to the insert
GetUserUsage(s) ==
    /\ runs[s].pc = "get_user_usage"
    /\ \E answered \in BOOLEAN :
        /\ runs' = [runs EXCEPT ![s] =
                       IF ~answered
                       THEN usage_gate([@ EXCEPT !.current_usage = 0,
                                                 !.recorded = stored_usage(usage_rows),
                                                 !.usage_read = "unavailable"])
                       ELSE IF usage_rows # <<>>
                       THEN usage_gate([@ EXCEPT
                                !.current_usage = stored_usage(usage_rows),
                                !.recorded = stored_usage(usage_rows),
                                !.usage_read = IF stored_usage(usage_rows) < max_usage
                                               THEN "below" ELSE "reached"])
                       ELSE [@ EXCEPT !.pc = "insert_usage_row", !.recorded = 0]]
        /\ store_failed' = (store_failed \/ ~answered)
    /\ UNCHANGED <<usage_rows, searches_passed, provider_requests, property_saves>>
    /\ UNCHANGED <<calc_vars, auth_vars>>

\* get_user_usage, no row found (lines 608-618): a row with usage_count 0 is
\* inserted, a failure of the insert is only warned about, and 0 is returned
InsertUsageRow(s) ==
    /\ runs[s].pc = "insert_usage_row"
    /\ \E answered \in BOOLEAN :
        /\ usage_rows' = IF answered THEN Append(usage_rows, 0) ELSE usage_rows
        /\ store_failed' = (store_failed \/ ~answered)
    /\ runs' = [runs EXCEPT ![s] =
                   usage_gate([@ EXCEPT !.current_usage = 0, !.usage_read = "below"])]
    /\ UNCHANGED <<searches_passed, provider_requests, property_saves>>
    /\ UNCHANGED <<calc_vars, auth_vars>>

\* increment_usage, the select (lines 631-633, 653-655)
IncrementSelect(s) ==
    /\ runs[s].pc = "increment_select"
    /\ \E answered \in BOOLEAN :
        /\ runs' = [runs EXCEPT ![s] =
                       IF answered
                       THEN [@ EXCEPT !.pc = "increment_write", !.selected = usage_rows]
                       ELSE increment_failed(@)]
        /\ store_failed' = (store_failed \/ ~answered)
    /\ UNCHANGED <<usage_rows, searches_passed, provider_requests, property_saves>>
    /\ UNCHANGED <<calc_vars, auth_vars>>

\* the rows of the user and month after the write of increment_usage: the
\* update sets every matching row to the count read before plus one (lines
\* 635-641), without a row read a new row with count 1 is inserted (642-650)
rows_after_increment(rows, selected) ==
    IF selected # <<>>
    THEN [i \in DOMAIN rows |-> selected[1] + 1]
    ELSE Append(rows, 1)

\* increment_usage, the write (lines 635-655): True once the write is answered
IncrementWrite(s) ==
    /\ runs[s].pc = "increment_write"
    /\ \E answered \in BOOLEAN :
        IF answered
        THEN /\ usage_rows' = rows_after_increment(usage_rows, runs[s].selected)
             /\ runs' = [runs EXCEPT ![s] = [@ EXCEPT !.pc = "search_properties",
                                                      !.incremented = TRUE]]
             /\ searches_passed' = searches_passed + 1
             /\ UNCHANGED store_failed
        ELSE /\ runs' = [runs EXCEPT ![s] = increment_failed(@)]
             /\ store_failed' = TRUE
             /\ UNCHANGED <<usage_rows, searches_passed>>
    /\ UNCHANGED <<provider_requests, property_saves>>
    /\ UNCHANGED <<calc_vars, auth_vars>>

\* lines 1267-1288: the request to the provider, and save_property_data when
\* the provider returned a property
SearchProperties(s) ==
    /\ runs[s].pc = "search_properties"
    /\ \E found \in BOOLEAN :
        /\ runs' = [runs EXCEPT ![s] = [@ EXCEPT
                       !.pc = "idle", !.requested = TRUE, !.saved = found,
                       !.outcome = IF found THEN "analysis complete"
                                   ELSE "no property data"]]
        /\ property_saves' = property_saves + (IF found THEN 1 ELSE 0)
    /\ provider_requests' = provider_requests + 1
    /\ UNCHANGED <<usage_rows, searches_passed, store_failed>>
    /\ UNCHANGED <<calc_vars, auth_vars>>

\* the month so far: no row yet, or one row whose count is the number of
\* searches that passed the gate and were performed
GateInit ==
    /\ CalcStart
    /\ AuthStart
    /\ runs = [s \in SessionIds |-> NoRun]
    /\ property_saves = 0
    /\ store_failed = FALSE
    /\ \E earlier \in 0..max_usage :
        /\ usage_rows \in (IF earlier = 0 THEN {<<>>, <<0>>} ELSE {<<earlier>>})
        /\ searches_passed = earlier
        /\ provider_requests = earlier

GateNext ==
    \/ \E s \in SessionIds : PressSearch(s)
    \/ \E s \in SessionIds : GetUserUsage(s)
    \/ \E s \in SessionIds : InsertUsageRow(s)
    \/ \E s \in SessionIds : IncrementSelect(s)
    \/ \E s \in SessionIds : IncrementWrite(s)
    \/ \E s \in SessionIds : SearchProperties(s)

GateSpec == GateInit /\ [][GateNext]_vars

----------------------------------------------------------------------------
(* Authentication and the session                                          *)
(* src/App.py WordPressAuthManager.check_subscription 164-273,             *)
(* render_wordpress_auth 950-972, the two Sign Out buttons 1010-1013 and   *)
(* 2385-2389, main 2258-2291 and 2366-2368.                                *)

\* __init__, line 162
admin_users == <<"admin", "superadmin", "donmenico">>

\* str.lower() on the names that occur in the model
Lower(name) ==
    CASE name = "DonMenico" -> "donmenico"
      [] name = "Alice" -> "alice"
      [] name = "ALICE" -> "alice"
      [] OTHER -> name

\* a JSON null where the code expects a string
JsonNull == "<null>"

Subscription(user_name, status) == [user_name |-> user_name, status |-> status]

\* the "data" lists the API returns
SubscriptionLists ==
    { <<>>,
      <<Subscription("alice", "active")>>,
      <<Subscription("alice", "expired")>>,
      <<Subscription("bob", "active"), Subscription("ALICE", "active")>>,
      <<Subscription(JsonNull, "active"), Subscription("alice", "active")>> }

\* response bodies: text that is no JSON, a JSON list, a JSON object
NotJson == [json |-> "invalid", status |-> "", data |-> <<>>]

JsonList == [json |-> "list", status |-> "", data |-> <<>>]

JsonObject(status, data) == [json |-> "dict", status |-> status, data |-> data]

Bodies ==
    {NotJson, JsonList, JsonObject("error", <<>>)}
        \cup {JsonObject("success", data) : data \in SubscriptionLists}

HttpResponse(status_code, body) ==
    [kind |-> "response", status_code |-> status_code, body |-> body]

\* requests.get raised instead of returning a response
RequestRaised(exception) == [kind |-> exception, status_code |-> 0, body |-> NotJson]

\* what one requests.get can give: an exception, a 200 with any body, or an
\* error status with a body that is no JSON or is a success object
Responses ==
    {RequestRaised("Timeout"), RequestRaised("ConnectionError")}
        \cup {HttpResponse(200, body) : body \in Bodies}
        \cup {HttpResponse(status_code, body) :
                status_code \in {401, 403, 500},
                body \in {NotJson, JsonObject("success", <<Subscription("alice", "active")>>)}}

\* lines 189 and 214
needs_fallback_any_error(response) == response.status_code # 200

needs_fallback(response) == response.status_code \in {401, 403}

\* the number of requests.get calls made when the i-th call is answered by
\* responses[i]: the first request (lines 174-186), the Authorization header
\* (189-211) and the custom headers (214-225); an exception ends the try block
requests_sent(responses) ==
    IF responses[1].kind # "response" \/ ~needs_fallback(responses[1]) THEN 1
    ELSE IF responses[2].kind # "response" \/ ~needs_fallback(responses[2]) THEN 2
    ELSE 3

\* return False, {"error": ...}
Failure(error, requests) ==
    [valid |-> FALSE, result |-> [error |-> error], requests |-> requests]

\* line 248
IsAdmin(username) ==
    \E i \in DOMAIN admin_users : Lower(username) = Lower(admin_users[i])

\* lines 259-260, for a subscription whose user_name is a string
IsActiveSubscriptionOf(sub, username) ==
    Lower(sub.user_name) = Lower(username) /\ sub.status = "active"

\* lines 258-266: the loop ends at the first subscription that matches or
\* whose user_name has no lower()
subscription_check(subscriptions, username, requests) ==
    LET stops == {i \in DOMAIN subscriptions :
                     \/ subscriptions[i].user_name = JsonNull
                     \/ IsActiveSubscriptionOf(subscriptions[i], username)}
    IN
    IF stops = {} THEN Failure("No active subscription found", requests)
    ELSE LET i == CHOOSE j \in stops : \A k \in stops : j <= k
             sub == subscriptions[i]
         IN
         IF sub.user_name = JsonNull
         THEN Failure("Authentication error", requests)
         ELSE [valid |-> TRUE,
               result |-> [role |-> "subscriber", user_name |-> sub.user_name,
                           status |-> sub.status],
               requests |-> requests]

\* lines 164-273.  The credentials decide what is sent, the answers decide
\* the outcome
check_subscription(username, password, consumer_secret, responses) ==
    LET requests == requests_sent(responses)
        response == responses[requests]
        body == response.body
    IN
    IF response.kind = "Timeout"
    THEN Failure("Request timeout - please try again", requests)
    ELSE IF response.kind = "ConnectionError"
    THEN Failure("Connection error - please check your internet connection", requests)
    ELSE IF response.status_code # 200 THEN Failure("API error", requests)
    ELSE IF body.json = "invalid"
    THEN Failure("Invalid JSON response from API", requests)
    ELSE IF body.json = "list" THEN Failure("Authentication error", requests)
    ELSE IF body.status # "success" THEN Failure("Invalid API response", requests)
    ELSE IF IsAdmin(username)
    THEN [valid |-> TRUE,
          result |-> [role |-> "admin", user_name |-> username, status |-> "active",
                      product_name |-> "Admin Access",
                      message |-> "Admin access granted"],
          requests |-> requests]
    ELSE subscription_check(body.data, username, requests)

\* st.session_state as a function from the keys present to their values
Get(state, key, default) == IF key \in DOMAIN state THEN state[key] ELSE default

Put(state, key, value) ==
    [k \in DOMAIN state \cup {key} |-> IF k = key THEN value ELSE state[k]]

Delete(state, keys) == [k \in DOMAIN state \ keys |-> state[k]]

\* lines 966 and 968
AdminMaxUsage == 1000

SubscriberMaxUsage == 100

\* lines 957-968
StoredAtSignIn ==
    {"authenticated", "user_data", "username", "password", "consumer_secret",
     "max_usage"}

sign_in(state, username, password, consumer_secret, user_data) ==
    LET s1 == Put(state, "authenticated", TRUE)
        s2 == Put(s1, "user_data", user_data)
        s3 == Put(s2, "username", username)
        s4 == Put(s3, "password", password)
        s5 == Put(s4, "consumer_secret", consumer_secret)
    IN Put(s5, "max_usage",
           IF user_data.role = "admin" THEN AdminMaxUsage ELSE SubscriberMaxUsage)

\* lines 2285-2291: a sidebar field is stored when it is not empty; a field
\* in which nothing is typed shows the stored value
sidebar_field(state, key, typed) ==
    LET value == IF typed # "" THEN typed ELSE Get(state, key, "") IN
    IF value # "" THEN Put(state, key, value) ELSE state

sidebar_config(state, supabase_url, supabase_anon_key, consumer_secret) ==
    sidebar_field(
        sidebar_field(sidebar_field(state, "supabase_url", supabase_url),
                      "supabase_anon_key", supabase_anon_key),
        "consumer_secret", consumer_secret)

\* line 2387, key.startswith((...)): of the keys of the session only the
\* four prefixes themselves begin with one of the prefixes
sign_out_prefixes == {"authenticated", "user_data", "username", "password"}

\* lines 2386-2388
sign_out_header(state) == Delete(state, {key \in DOMAIN state : key \in sign_out_prefixes})

\* lines 1011-1012
sign_out_sidebar(state) == Delete(state, DOMAIN state)

\* lines 2366-2368: what the next run shows
rendered(state) ==
    IF Get(state, "authenticated", FALSE) THEN "dashboard" ELSE "auth"

\* lines 2356-2360 and 2391: the dashboard with the sidebar Sign Out is rendered only with
\* a configured Supabase manager
supabase_configured(state) ==
    Get(state, "supabase_url", "") # "" /\ Get(state, "supabase_anon_key", "") # ""

FormUsernames == {"", "DonMenico", "Alice", "carol"}

FormPasswords == {"", "pw"}

FormSecrets == {"", "cs"}

\* a run in which the user has typed into the sidebar fields
Configure ==
    /\ ~signin.called
    /\ \E supabase_url \in {"", "https://p.supabase.co"},
          supabase_anon_key \in {"", "eyJ"}, consumer_secret \in FormSecrets :
        session_state' = sidebar_config(session_state, supabase_url,
                                        supabase_anon_key, consumer_secret)
    /\ screen' = rendered(session_state')
    /\ signed_out' = "none"
    /\ UNCHANGED signin
    /\ UNCHANGED <<calc_vars, gate_vars>>

\* lines 950-972: the sign-in form is submitted
SubmitSignIn ==
    /\ screen = "auth"
    /\ ~signin.called
    /\ signed_out' = "none"
    /\ \E username \in FormUsernames, password \in FormPasswords,
          consumer_secret \in FormSecrets :
        IF username = "" \/ password = ""
        THEN UNCHANGED <<session_state, screen, signin>>
        ELSE \E responses \in [1..3 -> Responses] :
            LET ret == check_subscription(username, password, consumer_secret,
                                          responses)
            IN
            /\ signin' = [called |-> TRUE, username |-> username,
                          sent |-> SubSeq(responses, 1, ret.requests),
                          valid |-> ret.valid, result |-> ret.result]
            /\ session_state' =
                   IF ret.valid
                   THEN sign_in(session_state, username, password,
                                consumer_secret, ret.result)
                   ELSE session_state
            /\ screen' = rendered(session_state')
    /\ UNCHANGED <<calc_vars, gate_vars>>

\* lines 2385-2389: Sign Out in the header, then st.rerun()
SignOutHeader ==
    /\ screen = "dashboard"
    /\ session_state' = sign_out_header(session_state)
    /\ screen' = rendered(session_state')
    /\ signed_out' = "header"
    /\ signin' = NoSignIn
    /\ UNCHANGED <<calc_vars, gate_vars>>

\* lines 1010-1013: Sign Out in the sidebar of the dashboard, then st.rerun()
SignOutSidebar ==
    /\ screen = "dashboard"
    /\ supabase_configured(session_state)
    /\ session_state' = sign_out_sidebar(session_state)
    /\ screen' = rendered(session_state')
    /\ signed_out' = "sidebar"
    /\ signin' = NoSignIn
    /\ UNCHANGED <<calc_vars, gate_vars>>

\* the next run: the outcome of the last sign-in is no longer shown
AuthRerun ==
    /\ signin.called
    /\ signin' = NoSignIn
    /\ screen' = rendered(session_state)
    /\ signed_out' = "none"
    /\ UNCHANGED session_state
    /\ UNCHANGED <<calc_vars, gate_vars>>

AuthInit ==
    /\ CalcStart
    /\ GateStart
    /\ AuthStart

AuthNext ==
    \/ Configure
    \/ SubmitSignIn
    \/ SignOutHeader
    \/ SignOutSidebar
    \/ AuthRerun

AuthSpec == AuthInit /\ [][AuthNext]_vars

----------------------------------------------------------------------------
(* Properties                                                              *)

Calculators == {"display_investment_calculator", "render_investment_calculator_tab"}

\* a calculator ran its calculation: its local variables exist
HasLocals == op \in Calculators /\ "locals" \in DOMAIN result

\* p percent of x
Pct(x, p) == RDiv(RMul(x, p), R(100))

\* C1: in the calculator tab the total monthly expense is mortgage + property
\* tax + insurance + HOA + maintenance% of the gross rent + management% of the
\* gross rent (in display_investment_calculator: mortgage + monthly expenses);
\* monthly cash flow = effective rent - total expense and annual cash flow =
\* 12 x monthly cash flow.
C1_CashFlowModel ==
    HasLocals =>
        LET f == args.form
            L == result.locals
            fixed == IF op = "render_investment_calculator_tab"
                     THEN RAdd(f.monthly_property_tax,
                               RAdd(f.monthly_insurance, f.monthly_hoa))
                     ELSE f.monthly_expenses
            percentage == IF op = "render_investment_calculator_tab"
                          THEN RAdd(Pct(L.monthly_rent, f.maintenance_pct),
                                    Pct(L.monthly_rent, f.property_mgmt_pct))
                          ELSE Zero
        IN  /\ L.total_monthly_expenses =
                   RAdd(L.monthly_mortgage, RAdd(fixed, percentage))
            /\ L.monthly_cash_flow = RSub(L.effective_rent, L.total_monthly_expenses)
            /\ L.annual_cash_flow = RMul(R(12), L.monthly_cash_flow)

\* the tab computed a result with a rent, a vacancy and both percentage costs
\* above 0, where gross and effective rent differ
C1_Witness ==
    /\ op = "render_investment_calculator_tab"
    /\ result.kind = "ok"
    /\ RGt(result.locals.monthly_rent, Zero)
    /\ RGt(args.form.vacancy_rate, Zero)
    /\ RGt(args.form.maintenance_pct, Zero)
    /\ RGt(args.form.property_mgmt_pct, Zero)
    /\ RLt(result.locals.effective_rent, result.locals.monthly_rent)

\* C2 as stated: effective rent <= gross rent, with equality if and only if
\* the vacancy rate is 0.
C2_EqualityIffNoVacancy ==
    HasLocals =>
        /\ RLe(result.locals.effective_rent, result.locals.monthly_rent)
        /\ (result.locals.effective_rent = result.locals.monthly_rent
               <=> args.form.vacancy_rate = Zero)

\* C2 (amended): effective rent = rent x (1 - vacancy/100) <= gross rent; for a
\* rent above 0 the two are equal if and only if the vacancy rate is 0, and
\* for a rent of 0 they are equal (both 0) at every vacancy rate.
C2_EffectiveRent ==
    HasLocals =>
        LET rent == result.locals.monthly_rent
            eff == result.locals.effective_rent
            vacancy == args.form.vacancy_rate
        IN  /\ eff = RSub(rent, Pct(rent, vacancy))
            /\ RLe(eff, rent)
            /\ RGt(rent, Zero) => (eff = rent <=> vacancy = Zero)
            /\ rent = Zero => eff = rent

\* a calculation with a rent above 0 and a vacancy above 0: effective < gross
C2_Witness ==
    /\ HasLocals
    /\ RGt(result.locals.monthly_rent, Zero)
    /\ RGt(args.form.vacancy_rate, Zero)
    /\ RLt(result.locals.effective_rent, result.locals.monthly_rent)

\* calculate_investment_metrics returned its metrics
MetricsOk == op = "calculate_investment_metrics" /\ result.kind = "ok"

\* the arguments of calculate_investment_metrics are valid: price > 0,
\* term > 0, down-payment percent in [0, 100], rate >= 0
ValidLoanInputs ==
    /\ op = "calculate_investment_metrics"
    /\ Truthy(PurchasePrice(args.property_data))
    /\ RGt(PurchasePrice(args.property_data), Zero)
    /\ args.loan_term_years > 0
    /\ RGe(args.down_payment_percent, Zero)
    /\ RLe(args.down_payment_percent, R(100))
    /\ (args.interest_rate = TinyRate \/ RGe(args.interest_rate, Zero))

\* C3: cap rate = (annual NOI / purchase price) x 100, where NOI is the rent
\* minus the operating expenses (every expense but the mortgage payment).
C3_CapRateFromNOI ==
    /\ (MetricsOk /\ ValidLoanInputs) =>
           LET noi == RAdd(result.monthly_cash_flow, result.monthly_payment)
           IN  result.cap_rate =
                   RMul(RDiv(RMul(R(12), noi), result.purchase_price), R(100))
    /\ (HasLocals /\ result.kind = "ok") =>
           LET L == result.locals
               noi == RAdd(L.monthly_cash_flow, L.monthly_mortgage)
           IN  result.cap_rate =
                   RMul(RDiv(RMul(R(12), noi), L.purchase_price), R(100))

\* C4: whenever the down payment is 0 the cash-on-cash return is exactly 0 and
\* no exception is raised; whenever it is above 0 the return is
\* (annual cash flow / down payment) x 100.
C4_CashOnCashZeroDownPayment ==
    /\ MetricsOk =>
           IF result.down_payment = Zero
           THEN result.cash_on_cash_return = Zero
           ELSE RGt(result.down_payment, Zero) =>
                    result.cash_on_cash_return =
                        RDiv(RMul(result.annual_cash_flow, R(100)), result.down_payment)
    /\ HasLocals =>
           LET L == result.locals IN
           IF L.down_payment = Zero
           THEN result.kind = "ok" /\ result.cash_on_cash_return = Zero
           ELSE result.kind = "ok"
                /\ result.cash_on_cash_return =
                       RDiv(RMul(L.annual_cash_flow, R(100)), L.down_payment)

\* C5: for valid inputs the monthly payment is P / n when the rate is 0 and
\* P*r*(1+r)^n / ((1+r)^n - 1) with r = rate/100/12 when the rate is above 0,
\* and no division by zero occurs.
C5_MortgagePayment ==
    ValidLoanInputs =>
        LET price == PurchasePrice(args.property_data)
            P == RSub(price, Pct(price, args.down_payment_percent))
            n == args.loan_term_years * 12
        IN  /\ result.kind = "ok"
            /\ result.loan_amount = P
            /\ IF args.interest_rate = Zero
               THEN result.monthly_payment = RDiv(P, R(n))
               ELSE LET r == RDiv(args.interest_rate, R(1200))
                        g == RPow(RAdd(One, r), n)
                    IN  result.monthly_payment =
                            RDiv(RMul(P, RMul(r, g)), RSub(g, One))

\* C6: the mortgage calculation fails (an error result or an exception
\* standing for the invalid-input error) and produces no payment whenever the
\* purchase price is <= 0, the term is <= 0 or the down-payment percent is
\* outside [0, 100].
C6_InvalidInputRejected ==
    op = "calculate_investment_metrics" =>
        LET price == PurchasePrice(args.property_data)
            invalid == \/ ~Truthy(price)
                       \/ RLe(price, Zero)
                       \/ args.loan_term_years <= 0
                       \/ RLt(args.down_payment_percent, Zero)
                       \/ RGt(args.down_payment_percent, R(100))
        IN  invalid => result.kind \in {"error", "raise"}

\* no rental estimate is available: absent, or 0
NoRentalEstimate(rent) == rent \in {None, EmptyRecord, NoRentKey, Zero}

\* C7: when no rental estimate is available the investment analysis is skipped
\* (a warning, or the section is not shown) and no metrics are computed from
\* a substituted default rent.
C7_NoAnalysisWithoutRent ==
    /\ (/\ op = "display_comprehensive_property_analysis"
        /\ (~args.include_rental_estimates \/ NoRentalEstimate(args.rental_data)))
           => result.kind \in {"warning", "not shown"}
    /\ (/\ op = "display_investment_calculator"
        /\ args.calculate
        /\ NoRentalEstimate(args.rent_estimate))
           => ~HasLocals

\* C8: the reported cash flow is the exact difference income - expenses, so it
\* is below 0 (monthly and annual) whenever the expenses exceed the income, and
\* no exception comes from the cash-flow statements: one is raised only by the
\* division of the mortgage payment or of the cap rate.
C8_NegativeCashFlowNotClamped ==
    /\ MetricsOk =>
           /\ result.monthly_cash_flow =
                  RSub(result.monthly_rental, result.total_monthly_expenses)
           /\ result.annual_cash_flow = RMul(R(12), result.monthly_cash_flow)
           /\ RGt(result.total_monthly_expenses, result.monthly_rental) =>
                  /\ RLt(result.monthly_cash_flow, Zero)
                  /\ RLt(result.annual_cash_flow, Zero)
    /\ HasLocals =>
           LET L == result.locals IN
           /\ L.monthly_cash_flow = RSub(L.effective_rent, L.total_monthly_expenses)
           /\ L.annual_cash_flow = RMul(R(12), L.monthly_cash_flow)
           /\ RGt(L.total_monthly_expenses, L.effective_rent) =>
                  /\ RLt(L.monthly_cash_flow, Zero)
                  /\ RLt(L.annual_cash_flow, Zero)
    /\ (op \in Calculators \cup {"calculate_investment_metrics"}
        /\ result.kind = "raise")
           => result.at \in {"monthly_payment", "monthly_mortgage", "cap_rate"}

\* a calculator reported a cash flow below 0: its expenses exceed an effective
\* rent above 0
C8_Witness ==
    /\ HasLocals
    /\ result.kind = "ok"
    /\ RGt(result.locals.effective_rent, Zero)
    /\ RGt(result.locals.total_monthly_expenses, result.locals.effective_rent)
    /\ RLt(result.locals.monthly_cash_flow, Zero)
    /\ RLt(result.locals.annual_cash_flow, Zero)

\* C9: on an empty comparable set, or one in which every comparable lacks a
\* sale price or a sale date, the neighborhood statistics are an explicit
\* error, never a result (of zeros).
C9_NoDataIsAnError ==
    (/\ op = "analyze_neighborhood_trends"
     /\ \A i \in DOMAIN args.comparable_properties :
            ~HasPriceAndDate(args.comparable_properties[i]))
        => /\ result.kind = "error"
           /\ DOMAIN result = {"kind", "error"}

\* a non-empty set whose comparables all lack a price or a date got the error
C9_Witness ==
    /\ op = "analyze_neighborhood_trends"
    /\ Len(args.comparable_properties) >= 2
    /\ \A i \in DOMAIN args.comparable_properties :
           ~HasPriceAndDate(args.comparable_properties[i])
    /\ \E i \in DOMAIN args.comparable_properties :
           Truthy(args.comparable_properties[i].lastSalePrice)
    /\ result.kind = "error"

\* C10: a comparable lacking a sale price or a sale date contributes to no
\* price statistic: removing those comparables from the input changes none of
\* mean, median, standard deviation, min, max, range, mean price per square
\* foot and coefficient of variation; and the number of properties found is
\* the size of the input set.
C10_ExcludedContributeNothing ==
    (op = "analyze_neighborhood_trends" /\ result.kind = "ok") =>
        LET kept == SelectSeq(args.comparable_properties, HasPriceAndDate)
            other == analyze_neighborhood_trends(kept)
        IN  /\ result.total_properties = Len(args.comparable_properties)
            /\ other.kind = "ok"
            /\ result.avg_price = other.avg_price
            /\ result.median_price = other.median_price
            /\ result.price_std_sq = other.price_std_sq
            /\ result.min_price = other.min_price
            /\ result.max_price = other.max_price
            /\ result.price_range = other.price_range
            /\ result.coefficient_of_variation_sq = other.coefficient_of_variation_sq
            /\ result.avg_price_per_sqft = other.avg_price_per_sqft

\* C11: with exactly one priced and dated comparable the statistics report
\* standard deviation 0, coefficient of variation 0, price range 0 and
\* mean = median = min = max = that price; and in every report the coefficient
\* of variation is (standard deviation / mean) x 100 (compared as squares:
\* cv^2 x mean^2 = std^2 x 100^2, all three being >= 0).
C11_SingleComparable ==
    (op = "analyze_neighborhood_trends" /\ result.kind = "ok") =>
        LET kept == SelectSeq(args.comparable_properties, HasPriceAndDate) IN
        /\ RGt(result.avg_price, Zero)
        /\ RMul(result.coefficient_of_variation_sq,
                RMul(result.avg_price, result.avg_price))
               = RMul(result.price_std_sq, R(10000))
        /\ Len(kept) = 1 =>
               /\ result.price_std_sq = Zero
               /\ result.coefficient_of_variation_sq = Zero
               /\ result.price_range = Zero
               /\ result.avg_price = kept[1].lastSalePrice
               /\ result.median_price = kept[1].lastSalePrice
               /\ result.min_price = kept[1].lastSalePrice
               /\ result.max_price = kept[1].lastSalePrice

\* three comparables, only one of them priced and dated, were analysed
C11_Witness ==
    /\ op = "analyze_neighborhood_trends"
    /\ Len(args.comparable_properties) = 3
    /\ Len(SelectSeq(args.comparable_properties, HasPriceAndDate)) = 1
    /\ result.kind = "ok"
    /\ result.coefficient_of_variation_sq = Zero
    /\ result.avg_price = R(300)

ForecastCalled == op = "calculate_appreciation_forecast"

\* the valid points of the call's historical data
ValidPoints == SelectSeq(args.historical_data, IsValidPoint)

\* the day numbers of the earliest and of the latest valid point
EarliestDay == CHOOSE d \in {ToOrdinal(ValidPoints[i].date) : i \in DOMAIN ValidPoints} :
                   \A i \in DOMAIN ValidPoints : d <= ToOrdinal(ValidPoints[i].date)
LatestDay == CHOOSE d \in {ToOrdinal(ValidPoints[i].date) : i \in DOMAIN ValidPoints} :
                 \A i \in DOMAIN ValidPoints : d >= ToOrdinal(ValidPoints[i].date)

\* three valid points on three different dates
ThreeDatedPoints ==
    /\ ForecastCalled
    /\ Len(args.historical_data) = 3
    /\ Len(ValidPoints) = 3
    /\ \A i, j \in 1..3 : i # j => ValidPoints[i].date # ValidPoints[j].date

\* C12: the forecast is invariant to interior points: the result computed from
\* three valid points on three different dates (rate, current value, every
\* forecast entry, total gain) is the result computed from the earliest-dated
\* and the latest-dated of them alone.
C12_InteriorPointIgnored ==
    ThreeDatedPoints =>
        LET first == CHOOSE i \in 1..3 : ToOrdinal(ValidPoints[i].date) = EarliestDay
            last == CHOOSE i \in 1..3 : ToOrdinal(ValidPoints[i].date) = LatestDay
            endpoints == <<ValidPoints[first], ValidPoints[last]>>
        IN  /\ result.kind = "ok"
            /\ result = calculate_appreciation_forecast(endpoints, args.years_ahead)

\* a forecast over three years from three dated points whose interior point
\* carries the price of the earliest one: 100 -> 100 -> 25600 over 8 years
C12_Witness ==
    /\ ThreeDatedPoints
    /\ \A i \in 1..3 : ValidPoints[i].price = (IF ToOrdinal(ValidPoints[i].date) = LatestDay
                                               THEN R(25600) ELSE R(100))
    /\ args.years_ahead = 3
    /\ result.kind = "ok"
    /\ result.annual_appreciation_rate = R(100)
    /\ result.forecasts[3].projected_value = R(204800)

\* C13: the forecaster returns an error, with no rate and no forecast, exactly
\* when fewer than 2 valid points (price and parseable date) exist or the
\* time between the earliest and the latest valid point is <= 0; it returns a
\* rate only when neither is the case.
C13_InsufficientData ==
    ForecastCalled =>
        LET insufficient == Len(ValidPoints) < 2 \/ LatestDay - EarliestDay <= 0
        IN  /\ insufficient => /\ result.kind = "error"
                               /\ DOMAIN result = {"kind", "error"}
            /\ "annual_appreciation_rate" \in DOMAIN result =>
                   /\ ~insufficient
                   /\ result.kind = "ok"

\* three valid points of different prices, all on one date, got the error
C13_Witness ==
    /\ ForecastCalled
    /\ Len(ValidPoints) = 3
    /\ LatestDay = EarliestDay
    /\ \E i, j \in 1..3 : ValidPoints[i].price # ValidPoints[j].price
    /\ result.kind = "error"
    /\ result.error = "Invalid date range"

\* C14: for a horizon h > 0 a forecast has exactly h entries, for the years
\* 1, 2, ..., h in this order; the projected value of year k is the current
\* value (the price of a latest-dated point) times (1 + rate/100)^k, its gain
\* is that value minus the current value, and the total projected gain is the
\* gain of the last entry.
C14_ForecastEntries ==
    (ForecastCalled /\ result.kind = "ok" /\ args.years_ahead > 0) =>
        LET h == args.years_ahead
            factor == RAdd(One, RDiv(result.annual_appreciation_rate, R(100)))
            previous(k) == IF k = 1 THEN result.current_value
                           ELSE result.forecasts[k - 1].projected_value
        IN  /\ \E i \in DOMAIN ValidPoints :
                   /\ ToOrdinal(ValidPoints[i].date) = LatestDay
                   /\ ValidPoints[i].price = result.current_value
            /\ Len(result.forecasts) = h
            /\ \A k \in 1..h :
                   /\ result.forecasts[k].year = k
                   /\ result.forecasts[k].projected_value = RMul(previous(k), factor)
                   /\ result.forecasts[k].projected_gain
                          = RSub(result.forecasts[k].projected_value, result.current_value)
            /\ result.total_projected_gain = result.forecasts[h].projected_gain

\* a falling price (25600 -> 100 over 4 years, -75% a year) forecast over 2 years
C14_Witness ==
    /\ ForecastCalled
    /\ args.years_ahead = 2
    /\ Len(ValidPoints) = 2
    /\ result.kind = "ok"
    /\ result.annual_appreciation_rate = R(-75)
    /\ result.current_value = R(100)
    /\ Len(result.forecasts) = 2
    /\ result.forecasts[2].projected_value = Rat(25, 4)
    /\ result.total_projected_gain = Rat(-375, 4)

AnalyticsShown == op = "display_advanced_analytics"

SubScoreNames ==
    {"Location Liquidity", "Property Age", "Property Size",
     "Price Competitiveness", "Property Condition"}

\* C15: for every property and every comparable set the total score, the sum
\* of the sub-scores, is at most 45 (5 x 9) and at least 20 (5 x 4).
C15_TotalScoreRange ==
    AnalyticsShown =>
        /\ result.total_score = SumOfScores(result.score_components)
        /\ result.total_score <= 45
        /\ result.total_score >= 20

\* a property without year built, square footage and price, and no comparable
\* at all, was scored: 5 + 5 + 5 + 6 + 6
C15_Witness ==
    /\ AnalyticsShown
    /\ args.property_data.yearBuilt = NoYearBuilt
    /\ args.property_data.squareFootage = None
    /\ args.property_data.lastSalePrice = None
    /\ args.comparable_properties = <<>>
    /\ result.total_score = 27

\* C16: the scorer returns exactly the five named sub-scores, and each of
\* them is one of 4, 5, 6, 7, 8, 9.
C16_SubScoreScale ==
    AnalyticsShown =>
        /\ DOMAIN result.score_components = SubScoreNames
        /\ \A name \in SubScoreNames : result.score_components[name] \in 4..9

\* an old, large, dear property among ten or more comparables was scored: its
\* sub-scores take both ends of the scale
C16_Witness ==
    /\ AnalyticsShown
    /\ Len(args.comparable_properties) >= 10
    /\ result.score_components["Location Liquidity"] = 9
    /\ result.score_components["Property Age"] = 4
    /\ result.score_components["Property Size"] = 8
    /\ result.score_components["Price Competitiveness"] = 5
    /\ result.score_components["Property Condition"] = 6

\* the total score as a percentage of the maximum attainable total, 5 x 9
PercentOfAttainable == RMul(Rat(result.total_score, 45), R(100))

\* C17: the grade is A iff the total score is at least 80 percent of the
\* maximum attainable total (45), B iff it is at least 70 and below 80, C iff
\* at least 60 and below 70, and D otherwise.
C17_GradeOfAttainable ==
    AnalyticsShown =>
        /\ result.score_grade = "A" <=> RGe(PercentOfAttainable, R(80))
        /\ result.score_grade = "B" <=> /\ RGe(PercentOfAttainable, R(70))
                                        /\ RLt(PercentOfAttainable, R(80))
        /\ result.score_grade = "C" <=> /\ RGe(PercentOfAttainable, R(60))
                                        /\ RLt(PercentOfAttainable, R(70))
        /\ result.score_grade = "D" <=> RLt(PercentOfAttainable, R(60))

\* the number of times a finding occurs in a list
Count(findings, text) == Cardinality({i \in DOMAIN findings : findings[i] = text})

\* all findings of a report, whatever their bucket
AllFindings == result.risks.high_risks \o result.risks.medium_risks \o result.risks.low_risks

LiquidityFindings == {LimitedComparables, ModerateActivity, ActiveMarket}

\* C18: every risk report holds exactly one comparable-count finding: in the
\* high bucket iff there are fewer than 5 comparables, in the medium bucket iff
\* there are 5 to 9, in the low bucket iff there are 10 or more.
C18_LiquidityFinding ==
    AnalyticsShown =>
        LET n == Len(args.comparable_properties)
            in_bucket(bucket) == \E t \in LiquidityFindings : Count(bucket, t) > 0
        IN  /\ Cardinality({i \in DOMAIN AllFindings : AllFindings[i] \in LiquidityFindings}) = 1
            /\ in_bucket(result.risks.high_risks) <=> n < 5
            /\ in_bucket(result.risks.medium_risks) <=> (n >= 5 /\ n <= 9)
            /\ in_bucket(result.risks.low_risks) <=> n >= 10
            /\ n >= 10 => Count(result.risks.low_risks, ActiveMarket) = 1

\* exactly five comparables gave the medium finding and no other liquidity one
C18_Witness ==
    /\ AnalyticsShown
    /\ Len(args.comparable_properties) = 5
    /\ Count(result.risks.medium_risks, ModerateActivity) = 1
    /\ Count(AllFindings, LimitedComparables) = 0
    /\ Count(AllFindings, ActiveMarket) = 0

\* C19: a property built before 1980 gets exactly one high-risk age finding
\* and no medium-risk one; one built in 1980..1999 exactly one medium-risk age
\* finding and no high-risk one; one built in 2000 or later, or without a year
\* built, no age finding; whatever the other rules find.
C19_AgeRule ==
    AnalyticsShown =>
        LET year_built == args.property_data.yearBuilt
            high == Count(result.risks.high_risks, BuiltBefore1980)
            medium == Count(result.risks.medium_risks, OlderProperty)
        IN  /\ Count(AllFindings, BuiltBefore1980) = high
            /\ Count(AllFindings, OlderProperty) = medium
            /\ (year_built # NoYearBuilt /\ year_built < 1980) => (high = 1 /\ medium = 0)
            /\ (year_built >= 1980 /\ year_built <= 1999) => (high = 0 /\ medium = 1)
            /\ (year_built = NoYearBuilt \/ year_built >= 2000) => (high = 0 /\ medium = 0)

\* a condominium of 1979 with volatile prices among few comparables: the age
\* rule and three other rules fired at once
C19_Witness ==
    /\ AnalyticsShown
    /\ args.property_data.yearBuilt = 1979
    /\ Count(result.risks.high_risks, BuiltBefore1980) = 1
    /\ Count(result.risks.high_risks, LimitedComparables) = 1
    /\ Count(result.risks.high_risks, HighVolatility) = 1
    /\ Count(result.risks.medium_risks, HoaFees) = 1
    /\ Count(result.risks.medium_risks, OlderProperty) = 0

VolatilityFindings == {HighVolatility, ModerateVolatility, StablePricing}

\* the squared coefficient of variation (in percent) of the comparables'
\* prices is above limit^2; without a price there is no variation
CvSquaredAbove(limit) ==
    LET prices == PricedOnly(args.comparable_properties) IN
    /\ prices # <<>>
    /\ RGt(RMul(RDiv(Variance(prices), RMul(Mean(prices), Mean(prices))), R(10000)),
           R(limit * limit))

CvSquaredIs(limit) ==
    LET prices == PricedOnly(args.comparable_properties) IN
    /\ prices # <<>>
    /\ RMul(RDiv(Variance(prices), RMul(Mean(prices), Mean(prices))), R(10000))
           = R(limit * limit)

\* C20: for every comparable set the report holds exactly one
\* price-volatility finding: high iff the coefficient of variation of the
\* prices is above 30%, medium iff it is from 20% to 30% inclusive, low in
\* every other case.
C20_PriceVolatility ==
    AnalyticsShown =>
        LET high == CvSquaredAbove(30)
            medium == ~high /\ (CvSquaredAbove(20) \/ CvSquaredIs(20))
        IN  /\ Cardinality({i \in DOMAIN AllFindings : AllFindings[i] \in VolatilityFindings}) = 1
            /\ Count(result.risks.high_risks, HighVolatility) = 1 <=> high
            /\ Count(result.risks.medium_risks, ModerateVolatility) = 1 <=> medium
            /\ Count(result.risks.low_risks, StablePricing) = 1 <=> (~high /\ ~medium)

\* the strategies a rule adds when it fires
RuleStrategies ==
    {"Conduct thorough property inspection", "Budget extra for maintenance and repairs",
     "Consider longer holding period", "Consider conservative valuation approach",
     "Review HOA documents and fee history"}

\* C21: the mitigation strategies of every risk report end with the four
\* general strategies (insurance, cash reserves, professional management,
\* regular maintenance and inspections) in this order, each exactly once;
\* whatever precedes them is a strategy of a rule; the list is never empty.
C21_GeneralStrategiesLast ==
    AnalyticsShown =>
        LET strategies == result.risks.mitigation_strategies
            n == Len(strategies)
        IN  /\ n >= 4
            /\ strategies[n - 3] = "Maintain adequate insurance coverage"
            /\ strategies[n - 2] = "Build cash reserves for unexpected expenses"
            /\ strategies[n - 1] = "Consider professional property management"
            /\ strategies[n] = "Regular property maintenance and inspections"
            /\ \A i \in 1..(n - 4) : strategies[i] \in RuleStrategies

\* a report in which no rule added a strategy (a recent house among ten or
\* more comparables of stable price): the four general strategies alone
C21_Witness ==
    /\ AnalyticsShown
    /\ result.risks.high_risks = <<>>
    /\ result.risks.medium_risks = <<>>
    /\ Len(result.risks.mitigation_strategies) = 4
    /\ result.risks.mitigation_strategies[4] = "Regular property maintenance and inspections"

\* C22: the result of an analysis function depends on its arguments only, not
\* on the clock: the property score and the risk report of a call are the ones
\* the same property and comparables get in any other year.
C22_ClockIndependent ==
    AnalyticsShown =>
        \A year \in NowYears :
            /\ calculate_property_score(args.property_data, args.comparable_properties, year)
                   = result.score_components
            /\ analyze_investment_risks(args.property_data, args.comparable_properties)
                   = result.risks

AnalysisFunctions ==
    {"calculate_investment_metrics", "analyze_neighborhood_trends",
     "calculate_appreciation_forecast", "display_advanced_analytics"}

DscrKeys == {"dscr", "debt_service_coverage_ratio", "debt_service_coverage"}

\* C24: the returned metrics include a debt service coverage ratio, NOI over
\* the annual debt service, and when the annual debt service is 0 (100% down
\* payment) it is an explicit sentinel, not a number and not an exception.
C24_DebtServiceCoverage ==
    (MetricsOk /\ ValidLoanInputs) =>
        /\ \E key \in DscrKeys :
               /\ key \in DOMAIN result
               /\ LET noi == RSub(RMul(result.monthly_rental, R(12)),
                                  RMul(RSub(result.total_monthly_expenses,
                                            result.monthly_payment), R(12)))
                      debt_service == RMul(result.monthly_payment, R(12))
                  IN  IF debt_service = Zero
                      THEN Len(result[key]) = 1
                      ELSE result[key] = RDiv(noi, debt_service)

\* the calculator of 3App.py run on the inputs of a metrics call: the vacancy,
\* maintenance and management percentages and the fixed costs of App.py
IncomeDiscountVariant ==
    calculator(result.purchase_price, args.down_payment_percent, args.interest_rate,
               args.loan_term_years, result.monthly_rental, R(8),
               <<result.property_tax_monthly, result.insurance_monthly>>,
               <<R(5), R(10)>>)

C26_OrderIndependent ==
    ForecastCalled =>
        \A p \in Permutations(DOMAIN args.historical_data) :
            calculate_appreciation_forecast(
                [i \in DOMAIN args.historical_data |-> args.historical_data[p[i]]],
                args.years_ahead) = result

----------------------------------------------------------------------------
(* C27: a search run issues the request to the provider only after         *)
(* increment_usage returned True in that run and only when the usage the   *)
(* store recorded at the time of get_user_usage was strictly below the     *)
(* limit; a run that ended at the limit or at a failed increment has       *)
(* requested and saved nothing.                                            *)
C27_UsageGateOrdering ==
    \A s \in SessionIds :
        /\ runs[s].requested =>
               /\ runs[s].incremented
               /\ runs[s].recorded < max_usage
        /\ runs[s].outcome \in {"limit reached", "increment failed"} =>
               ~runs[s].requested /\ ~runs[s].saved

----------------------------------------------------------------------------
(* C28: when no request to the store has failed, under every interleaving  *)
(* of the two sessions the stored usage count equals the number of         *)
(* searches that passed the gate, and the number of searches performed     *)
(* does not exceed the monthly limit.                                      *)
C28_NoLostIncrement ==
    ~store_failed =>
        /\ stored_usage(usage_rows) = searches_passed
        /\ provider_requests <= max_usage

----------------------------------------------------------------------------
(* C29: check_subscription returns True only when the last response        *)
(* received has status 200 and a JSON object body with status "success"    *)
(* and the username is an admin or has an active subscription in the data  *)
(* (names compared without case); otherwise it returns False with an       *)
(* error; a further request follows only a 401 or 403 response, so at most *)
(* three requests are made.                                                *)
LastResponse == signin.sent[Len(signin.sent)]

HasActiveSubscription(data, username) ==
    \E i \in DOMAIN data :
        /\ data[i].user_name # JsonNull
        /\ Lower(data[i].user_name) = Lower(username)
        /\ data[i].status = "active"

C29_CheckSubscription ==
    signin.called =>
        /\ signin.valid \in BOOLEAN
        /\ signin.valid =>
               /\ LastResponse.kind = "response"
               /\ LastResponse.status_code = 200
               /\ LastResponse.body.json = "dict"
               /\ LastResponse.body.status = "success"
               /\ \/ Lower(signin.username) \in {"admin", "superadmin", "donmenico"}
                  \/ HasActiveSubscription(LastResponse.body.data, signin.username)
        /\ ~signin.valid => DOMAIN signin.result = {"error"}
        /\ Len(signin.sent) \in 1..3
        /\ \A i \in 2..Len(signin.sent) :
               /\ signin.sent[i - 1].kind = "response"
               /\ signin.sent[i - 1].status_code \in {401, 403}

\* a subscriber whose name differs in case is accepted on the third request
C29_Witness ==
    /\ signin.called
    /\ signin.valid
    /\ Len(signin.sent) = 3
    /\ signin.username = "Alice"
    /\ signin.result.role = "subscriber"

----------------------------------------------------------------------------
(* C30: after a Sign Out the session state holds none of the keys stored   *)
(* at sign-in and the next run shows the authentication screen, for the    *)
(* header button and for the sidebar button.                               *)
C30_SignOutClearsSession ==
    signed_out # "none" =>
        /\ DOMAIN session_state \cap StoredAtSignIn = {}
        /\ screen = "auth"

====
